---- MODULE Spec2Model ----
(***************************************************************************)
(* A model of the version resolver of magical-launcher-core:               *)
(* Version::parse (src/src/core/version.rs) walks the inheritsFrom chain   *)
(* of version descriptors, merges them root to leaf, checks the merged     *)
(* descriptor and builds a ResolvedVersion; resolve_libraries and          *)
(* check_allowed normalise the raw library entries for a platform.         *)
(*                                                                         *)
(* Option<T> is a sequence of length at most one: None is <<>>, Some(v) is *)
(* <<v>>.  A HashMap is a function whose DOMAIN is its key set.  A         *)
(* serde_json Value is a tagged record [t, v].  Strings that the code      *)
(* splits, rewrites or concatenates (library names, urls, paths, os        *)
(* versions, version patterns) are sequences of tokens, the separators     *)
(* ':' '.' '/' '-' being tokens of their own.                              *)
(***************************************************************************)
EXTENDS Integers, Sequences, FiniteSets, TLC

VARIABLES
    files,                    \* versions folder: id -> the <id>/<id>.json file
    self,                     \* the Version that parse is called on (the leaf)
    platform,                 \* the PlatformInfo handed to parse
    pc,                       \* "walk", "merge", "Ok", "Err", "panic"
    error,                    \* the error or panic message once pc is Err/panic
    inherits_from,            \* parse: let mut inherits_from
    versions,                 \* parse: let mut versions
    inheritances,             \* parse: let mut inheritances
    path_chain,               \* parse: let mut path_chain
    assets,
    minimum_launcher_version,
    release_time,
    time,
    version_type,
    logging,
    main_class,
    assets_index,
    java_version,
    libraries_raw,
    downloads,
    result,                   \* Option<ResolvedVersion> returned to the caller
    first,                    \* what the first call of parse returned, once the
                              \* caller has called parse a second time
    expanded,                 \* Option: what an argument expander returned
    loader,                   \* FabricLoaderArtifact handed to install_fabric
    options,                  \* Option<FabricInstallOptions> handed to install_fabric
    installed,                \* Option: the file install_fabric wrote, and the id
                              \* it returned
    loaded                    \* Option: what reading that file back as a Version gave

vars == <<files, self, platform, pc, error, inherits_from, versions,
          inheritances, path_chain, assets, minimum_launcher_version,
          release_time, time, version_type, logging, main_class, assets_index,
          java_version, libraries_raw, downloads, result, first, expanded,
          loader, options, installed, loaded>>

(***************************************************************************)
(* Bounds of the model.                                                    *)
(***************************************************************************)
\* The chain walk of a cyclic store never ends: it is followed for at most
\* MaxLoads descriptor loads.
MaxLoads == 4

\* Longest libraries array of one descriptor.
MaxLibs == 2

\* Longest rules array of a library entry.
MaxRules == 2

(***************************************************************************)
(* Option helpers (Option::unwrap_or, Some, None).                         *)
(***************************************************************************)
None == <<>>
Some(v) == <<v>>

UnwrapOr_Default(o, d) == d

UnwrapOr(o, d) == IF o = <<>> THEN d ELSE o[1]

Max(a, b) == IF a >= b THEN a ELSE b
Last(s) == s[Len(s)]

(***************************************************************************)
(* Data of version.rs.                                                     *)
(***************************************************************************)
\* AssetIndex { size: 0, url: "", id: "", total_size: 0 }, the initial value
\* of assets_index and the value the completeness check compares against.
EmptyAssetIndex == [size |-> 0, url |-> "", id |-> "", total_size |-> 0]

\* JavaVersion { component: "jre-legacy", major_version: 8 }
DefaultJavaVersion == [component |-> "jre-legacy", major_version |-> 8]

\* versions_folder.join(id).join(format!("{}.json", id))
VersionJsonPath(id) == <<"versions", id, id, ".json">>

\* pub struct Version: the fields parse reads.
Version(id, parent, mlv, mc, libs, ai, as, dl, jv, rt, tm, ty, lg, cv, args) ==
    [id |-> id, inherits_from |-> parent, minimum_launcher_version |-> mlv,
     arguments |-> args,
     main_class |-> mc, libraries |-> libs, asset_index |-> ai, assets |-> as,
     downloads |-> dl, java_version |-> jv, release_time |-> rt, time |-> tm,
     type |-> ty, logging |-> lg, client_version |-> cv]

\* read_to_string(path)? followed by serde_json::from_str(..)?
ReadVersion_IgnoreFailure(id) ==
    [ok |-> TRUE, err |-> "",
     version |-> IF files[id].kind = "ok" THEN files[id].version
                 ELSE Version(id, None, None, None, None, None, None, None,
                              None, None, None, None, None, None, None)]

ReadVersion(id) ==
    CASE files[id].kind = "absent"  -> [ok |-> FALSE, err |-> "io", version |-> None]
      [] files[id].kind = "garbled" -> [ok |-> FALSE, err |-> "json", version |-> None]
      [] OTHER -> [ok |-> TRUE, err |-> "", version |-> files[id].version]

(***************************************************************************)
(* serde_json::Value.  Indexing a Value by a key gives Null when the value *)
(* is no object or lacks the key; indexing a Map (the result of            *)
(* as_object) by a key it lacks panics.                                    *)
(***************************************************************************)
JNull == [t |-> "null", v |-> 0]
JBool(b) == [t |-> "bool", v |-> b]
JNum(n) == [t |-> "number", v |-> n]
JStr(s) == [t |-> "string", v |-> s]
JArr(a) == [t |-> "array", v |-> a]
JObj(o) == [t |-> "object", v |-> o]

\* impl Index<&str> for Value
Get(val, k) == IF val.t = "object" /\ k \in DOMAIN val.v THEN val.v[k] ELSE JNull

\* impl Index<&Q> for Map<String, Value>: defined only for a present key
MapHas(m, k) == k \in DOMAIN m

(***************************************************************************)
(* Regex::new and Regex::is_match, for the patterns the model uses: a      *)
(* pattern is a sequence of tokens, "^" and "$" are the anchors, "." is    *)
(* any character, "\\." is a literal dot, "(" opens a group that is never  *)
(* closed (Regex::new fails), every other token is a literal.              *)
(***************************************************************************)
RegexValid(pat) == \A i \in 1..Len(pat) : pat[i] # "("

TokenMatches(p, c) ==
    CASE p = "."   -> TRUE
      [] p = "\\." -> c = "."
      [] OTHER     -> p = c

RECURSIVE MatchHere(_, _, _, _)
\* does pat[i..] match text starting at position j
MatchHere(pat, i, text, j) ==
    IF i > Len(pat) THEN TRUE
    ELSE IF pat[i] = "$" /\ i = Len(pat) THEN j = Len(text) + 1
    ELSE IF pat[i] = "^" THEN j = 1 /\ MatchHere(pat, i + 1, text, j)
    ELSE /\ j <= Len(text)
         /\ TokenMatches(pat[i], text[j])
         /\ MatchHere(pat, i + 1, text, j + 1)

IsMatch_FullMatch(pat, text) ==
    MatchHere(pat \o <<"$">>, 1, text, 1)

\* Regex::is_match: a search, the pattern may match anywhere in the text
IsMatch(pat, text) ==
    \E j \in 1..(Len(text) + 1) : MatchHere(pat, 1, text, j)

(***************************************************************************)
(* check_allowed (core/version.rs).  The result is [panic, allow]: the     *)
(* unwrap of a missing action and of an invalid pattern panic.             *)
(***************************************************************************)
\* os["features"].is_object()
OsHasFeatures_Never(os) == FALSE

OsHasFeatures(os) == Get(os, "features").t = "object"

RECURSIVE CheckRules(_, _, _, _)
CheckRules(rules, i, allow, pf) ==
    IF i > Len(rules) THEN [panic |-> FALSE, allow |-> allow]
    ELSE LET rule == rules[i]
             os == Get(rule, "os")
         IN  IF Get(rule, "action").t # "string"
             THEN [panic |-> TRUE, allow |-> FALSE]
             ELSE LET action == (Get(rule, "action").v = "allow") IN
                  IF os.t # "object" THEN CheckRules(rules, i + 1, action, pf)
                  ELSE IF Get(os, "name").t # "string"
                       THEN CheckRules(rules, i + 1, action, pf)
                  ELSE IF pf.name # Get(os, "name").v
                       THEN CheckRules(rules, i + 1, allow, pf)
                  ELSE IF OsHasFeatures(os)
                       THEN [panic |-> FALSE, allow |-> FALSE]
                  ELSE IF Get(os, "version").t # "string"
                       THEN CheckRules(rules, i + 1, action, pf)
                  ELSE IF ~RegexValid(Get(os, "version").v)
                       THEN [panic |-> TRUE, allow |-> FALSE]
                  ELSE IF IsMatch(Get(os, "version").v, pf.version)
                       THEN CheckRules(rules, i + 1, action, pf)
                  ELSE CheckRules(rules, i + 1, allow, pf)

check_allowed(rules, pf) ==
    IF rules = <<>> THEN [panic |-> FALSE, allow |-> TRUE]
    ELSE CheckRules(rules, 1, FALSE, pf)

(***************************************************************************)
(* String operations of resolve_libraries.                                 *)
(***************************************************************************)
RECURSIVE Split(_, _)
\* str::split(sep).collect(): the pieces between the separator tokens
Split(str, sep) ==
    IF \A i \in 1..Len(str) : str[i] # sep THEN <<str>>
    ELSE LET k == CHOOSE i \in 1..Len(str) :
                      str[i] = sep /\ \A j \in 1..(i - 1) : str[j] # sep
         IN  <<SubSeq(str, 1, k - 1)>> \o Split(SubSeq(str, k + 1, Len(str)), sep)

\* str::replace(from, to)
Replace_Nothing(str, from, to) == str

Replace(str, from, to) ==
    [i \in 1..Len(str) |-> IF str[i] = from THEN to ELSE str[i]]

\* "http://files.minecraftforge.net/maven/"
DefaultMavenUrl == <<"http://files.minecraftforge.net/maven/">>

\* format!("{package}/{name}/{version}/{name}-{version}.jar")
LegacyPath(package, name, version) ==
    package \o <<"/">> \o name \o <<"/">> \o version \o <<"/">>
        \o name \o <<"-">> \o version \o <<".jar">>

\* pub struct ResolvedLibrary { download_info: LibraryDownload, is_native_library }
ResolvedLibrary_Swapped(sha1, size, url, path, native) ==
    [download_info |-> [sha1 |-> sha1, size |-> size, url |-> path, path |-> url],
     is_native_library |-> native]

ResolvedLibrary(sha1, size, url, path, native) ==
    [download_info |-> [sha1 |-> sha1, size |-> size, url |-> url, path |-> path],
     is_native_library |-> native]

(***************************************************************************)
(* One iteration of the loop of resolve_libraries: [panic, recs], recs the *)
(* records the iteration pushes.                                           *)
(***************************************************************************)
Skip == [panic |-> FALSE, recs |-> <<>>]
Panicked == [panic |-> TRUE, recs |-> <<>>]

\* lines 627-658: the legacy (forge) entry, resolved from its maven name
ResolveLegacy_PanicOnMalformed(library) ==
    LET name == Get(library, "name") IN
    IF name.t # "string" THEN Skip
    ELSE LET parts == Split(name.v, ":") IN
         IF Len(parts) # 3 THEN Panicked
         ELSE LET package == Replace(parts[1], ".", "/")
                  url == IF Get(library, "url").t = "string"
                         THEN Get(library, "url").v ELSE DefaultMavenUrl
                  path == LegacyPath(package, parts[2], parts[3])
              IN  [panic |-> FALSE,
                   recs |-> <<ResolvedLibrary("", 0, url \o path, path, FALSE)>>]

ResolveLegacy(library) ==
    LET name == Get(library, "name") IN
    IF name.t # "string" THEN Skip
    ELSE LET parts == Split(name.v, ":") IN
         IF Len(parts) # 3 THEN Skip
         ELSE LET package == Replace(parts[1], ".", "/")
                  url == IF Get(library, "url").t = "string"
                         THEN Get(library, "url").v ELSE DefaultMavenUrl
                  path == LegacyPath(package, parts[2], parts[3])
              IN  [panic |-> FALSE,
                   recs |-> <<ResolvedLibrary("", 0, url \o path, path, FALSE)>>]

\* serde_json::from_value::<LibraryDownload>(artifact): every field present
\* and of its type, or an Err that the unwrap turns into a panic
IsLibraryDownload(a) ==
    /\ Get(a, "sha1").t = "string"
    /\ Get(a, "size").t = "number" /\ Get(a, "size").v >= 0
    /\ Get(a, "url").t = "string"
    /\ Get(a, "path").t = "string"

\* lines 618-658: the common library, then the legacy one
ResolveCommon(library) ==
    LET artifact == Get(Get(library, "downloads"), "artifact") IN
    IF artifact.t = "object"
    THEN IF IsLibraryDownload(artifact)
         THEN [panic |-> FALSE,
               recs |-> <<ResolvedLibrary(Get(artifact, "sha1").v, Get(artifact, "size").v,
                                          Get(artifact, "url").v, Get(artifact, "path").v,
                                          FALSE)>>]
         ELSE Panicked
    ELSE ResolveLegacy(library)

\* lines 587-617: the native library.  [panic, skip, recs]: skip is the
\* `continue` that ends the iteration, otherwise the iteration goes on to the
\* common library.
ResolveNative(library, pf) ==
    LET classifiers == Get(Get(library, "downloads"), "classifiers")
        natives == Get(library, "natives")
        go(recs) == [panic |-> FALSE, skip |-> FALSE, recs |-> recs]
        continue == [panic |-> FALSE, skip |-> TRUE, recs |-> <<>>]
        panic == [panic |-> TRUE, skip |-> TRUE, recs |-> <<>>]
    IN
    IF ~(classifiers.t = "object" /\ natives.t = "object") THEN go(<<>>)
    ELSE IF ~MapHas(natives.v, pf.name) THEN panic
    ELSE IF natives.v[pf.name].t # "string" THEN continue
    ELSE IF ~MapHas(classifiers.v, natives.v[pf.name].v) THEN panic
    ELSE LET c == classifiers.v[natives.v[pf.name].v] IN
         IF c.t # "object" THEN continue
         ELSE IF ~MapHas(c.v, "sha1") THEN panic
         ELSE IF ~MapHas(c.v, "size") THEN panic
         ELSE IF ~MapHas(c.v, "url") THEN panic
         ELSE IF c.v["url"].t # "string" THEN continue
         ELSE IF ~MapHas(c.v, "path") THEN panic
         ELSE IF c.v["path"].t # "string" THEN continue
         ELSE go(<<ResolvedLibrary(
                     IF c.v["sha1"].t = "string" THEN c.v["sha1"].v ELSE "",
                     IF c.v["size"].t = "number" /\ c.v["size"].v >= 0
                         THEN c.v["size"].v ELSE 0,
                     c.v["url"].v, c.v["path"].v, TRUE)>>)

\* lines 579-659: one library of the loop
ResolveLibrary(library, pf) ==
    LET rules == Get(library, "rules")
        ca == IF rules.t = "array" THEN check_allowed(rules.v, pf)
              ELSE [panic |-> FALSE, allow |-> TRUE]
    IN
    IF ca.panic THEN Panicked
    ELSE IF ~ca.allow THEN Skip
    ELSE LET n == ResolveNative(library, pf) IN
         IF n.panic THEN Panicked
         ELSE IF n.skip THEN Skip
         ELSE LET c == ResolveCommon(library) IN
              IF c.panic THEN Panicked
              ELSE [panic |-> FALSE, recs |-> n.recs \o c.recs]

RECURSIVE ResolveFrom(_, _, _, _)
ResolveFrom(libraries, i, acc, pf) ==
    IF i > Len(libraries) THEN [panic |-> FALSE, libs |-> acc]
    ELSE LET r == ResolveLibrary(libraries[i], pf) IN
         IF r.panic THEN [panic |-> TRUE, libs |-> <<>>]
         ELSE ResolveFrom(libraries, i + 1, acc \o r.recs, pf)

\* async fn resolve_libraries(libraries, platform) -> Vec<ResolvedLibrary>
resolve_libraries(libraries, pf) == ResolveFrom(libraries, 1, <<>>, pf)

\* async fn _resolve_arguments(arguments, platform) -> Vec<String>, the
\* expansion of argument templates: [panic, tokens]
RECURSIVE ExpandFrom(_, _, _, _)
ExpandFrom(arguments, i, acc, pf) ==
    IF i > Len(arguments) THEN [panic |-> FALSE, tokens |-> acc]
    ELSE LET argument == arguments[i]
             rules == Get(argument, "rules")
             value == Get(argument, "value")
             ca == IF rules.t = "array" THEN check_allowed(rules.v, pf)
                   ELSE [panic |-> FALSE, allow |-> TRUE]
         IN  IF argument.t = "string"
             THEN ExpandFrom(arguments, i + 1, Append(acc, argument.v), pf)
             ELSE IF argument.t # "object" THEN ExpandFrom(arguments, i + 1, acc, pf)
             ELSE IF ca.panic THEN [panic |-> TRUE, tokens |-> <<>>]
             ELSE IF ~ca.allow THEN ExpandFrom(arguments, i + 1, acc, pf)
             ELSE IF value.t = "string"
                  THEN ExpandFrom(arguments, i + 1, Append(acc, value.v), pf)
             ELSE IF value.t = "array"
                  THEN IF \E k \in 1..Len(value.v) : value.v[k].t # "string"
                       THEN [panic |-> TRUE, tokens |-> <<>>]
                       ELSE ExpandFrom(arguments, i + 1,
                                       acc \o [k \in 1..Len(value.v) |-> value.v[k].v], pf)
             ELSE ExpandFrom(arguments, i + 1, acc, pf)

_resolve_arguments_Reversed(arguments, pf) ==
    LET r == ExpandFrom(arguments, 1, <<>>, pf) IN
    [r EXCEPT !.tokens = [k \in 1..Len(r.tokens) |-> r.tokens[Len(r.tokens) + 1 - k]]]

_resolve_arguments(arguments, pf) == ExpandFrom(arguments, 1, <<>>, pf)

(***************************************************************************)
(* utils/versions.rs: the second rule evaluator and the second argument    *)
(* expander.                                                               *)
(***************************************************************************)
\* PlatformInfo::get(): the platform of the host, the one Version::new hands
\* to resolve_libraries and resolve_arguments
PlatformInfoGet == platform

RECURSIVE utils_CheckRules(_, _, _, _)
\* the loop of utils check_allowed: `apply` is true for a rule without an os
\* object, and for a rule whose os name is the platform's and whose version
\* pattern, if any, matches; features are not looked at
utils_CheckRules(rules, i, allow, pf) ==
    IF i > Len(rules) THEN [panic |-> FALSE, allow |-> allow]
    ELSE LET rule == rules[i]
             os == Get(rule, "os")
             name == Get(os, "name")
             version == Get(os, "version")
         IN  IF Get(rule, "action").t # "string"
             THEN [panic |-> TRUE, allow |-> FALSE]
             ELSE LET action == (Get(rule, "action").v = "allow") IN
                  IF os.t # "object" THEN utils_CheckRules(rules, i + 1, action, pf)
                  ELSE IF name.t # "string" \/ name.v # pf.name
                       THEN utils_CheckRules(rules, i + 1, allow, pf)
                  ELSE IF version.t # "string"
                       THEN utils_CheckRules(rules, i + 1, action, pf)
                  ELSE IF ~RegexValid(version.v)
                       THEN [panic |-> TRUE, allow |-> FALSE]
                  ELSE IF IsMatch(version.v, PlatformInfoGet.version)
                       THEN utils_CheckRules(rules, i + 1, action, pf)
                  ELSE utils_CheckRules(rules, i + 1, allow, pf)

utils_check_allowed(rules, pf) ==
    IF rules = <<>> THEN [panic |-> FALSE, allow |-> TRUE]
    ELSE utils_CheckRules(rules, 1, FALSE, pf)

RECURSIVE utils_resolve(_, _, _, _)
\* fn resolve(arguments, platform) -> String: every token is followed by a
\* space; [panic, text], text the String as a sequence of its pieces
utils_resolve(arguments, i, acc, pf) ==
    IF i > Len(arguments) THEN [panic |-> FALSE, text |-> acc]
    ELSE LET argument == arguments[i]
             rules == Get(argument, "rules")
             value == Get(argument, "value")
             ca == IF rules.t = "array" THEN utils_check_allowed(rules.v, pf)
                   ELSE [panic |-> FALSE, allow |-> TRUE]
         IN  IF argument.t = "string"
             THEN utils_resolve(arguments, i + 1, acc \o <<argument.v, " ">>, pf)
             ELSE IF ca.panic THEN [panic |-> TRUE, text |-> <<>>]
             ELSE IF ~ca.allow THEN utils_resolve(arguments, i + 1, acc, pf)
             ELSE IF value.t = "string"
                  THEN utils_resolve(arguments, i + 1, acc \o <<value.v, " ">>, pf)
             ELSE IF value.t = "array"
                  THEN IF \E k \in 1..Len(value.v) : value.v[k].t # "string"
                       THEN [panic |-> TRUE, text |-> <<>>]
                       ELSE utils_resolve(arguments, i + 1,
                                acc \o [k \in 1..(2 * Len(value.v)) |->
                                          IF k % 2 = 1 THEN value.v[(k + 1) \div 2].v
                                          ELSE " "], pf)
             ELSE utils_resolve(arguments, i + 1, acc, pf)

\* fn resolve_arguments(arguments, platform) -> ResolvedArguments
utils_resolve_arguments(arguments, pf) ==
    LET game == utils_resolve(arguments.game, 1, <<>>, pf)
        jvm == utils_resolve(arguments.jvm, 1, <<>>, pf)
    IN  [panic |-> game.panic \/ jvm.panic, game |-> game.text, jvm |-> jvm.text]

(***************************************************************************)
(* The built-in argument lists.                                            *)
(***************************************************************************)
DEFAULT_GAME_ARGS ==
    <<"--username", "${auth_player_name}", "--version", "${version_name}",
      "--gameDir", "${game_directory}", "--assetsDir", "${assets_root}",
      "--assetIndex", "${asset_index}", "--uuid", "${auth_uuid}",
      "--accessToken", "${auth_access_token}", "--clientId", "${clientid}",
      "--xuid", "${auth_xuid}", "--userType", "${user_type}",
      "--versionType", "${version_type}", "--width", "${resolution_width}",
      "--height", "${resolution_height}">>

DEFAULT_JVM_ARGS ==
    <<"\"-Djava.library.path=${natives_directory}\"",
      "\"-Dminecraft.launcher.brand=${launcher_name}\"",
      "\"-Dminecraft.launcher.version=${launcher_version}\"",
      "\"-Dfile.encoding=UTF-8\"",
      "\"-Dsun.stdout.encoding=UTF-8\"",
      "\"-Dsun.stderr.encoding=UTF-8\"",
      "\"-Djava.rmi.server.useCodebaseOnly=true\"",
      "\"-XX:MaxInlineSize=420\"",
      "\"-XX:-UseAdaptiveSizePolicy\"",
      "\"-XX:-OmitStackTraceInFastThrow\"",
      "\"-XX:-DontCompileHugeMethods\"",
      "\"-Dcom.sun.jndi.rmi.object.trustURLCodebase=false\"",
      "\"-Dcom.sun.jndi.cosnaming.object.trustURLCodebase=false\"",
      "\"-Dlog4j2.formatMsgNoLookups=true\"",
      "-cp", "${classpath}">>

\* let game_args = DEFAULT_GAME_ARGS.clone(); the arguments of the
\* descriptors are not read
game_args_Empty == <<>>

game_args == DEFAULT_GAME_ARGS

\* let jvm_args = DEFAULT_JVM_ARGS.clone();
jvm_args == DEFAULT_JVM_ARGS

(***************************************************************************)
(* Version::parse, lines 403-421: the chain walk, one loop iteration per   *)
(* step.                                                                   *)
(***************************************************************************)
FabricVars == <<loader, options, installed, loaded>>

MergeVars == <<assets, minimum_launcher_version, release_time, time, version_type,
               logging, main_class, assets_index, java_version, libraries_raw,
               downloads>>

\* read_to_string(path) reads the file and leaves the folder as it is
StoreAfterLoad_Consume(folder, id) ==
    [folder EXCEPT ![id] = [kind |-> "absent", version |-> <<>>]]

StoreAfterLoad(folder, id) == folder

\* inherits_from = version_json.inherits_from
NextParent_Stop(version) == <<>>

NextParent(version) == version.inherits_from

\* an iteration whose read_to_string and from_str succeed
WalkLoad ==
    /\ pc = "walk"
    /\ inherits_from # None
    /\ Len(inheritances) < MaxLoads
    /\ LET id == inherits_from[1]
           r == ReadVersion(id)
       IN  /\ r.ok
           /\ inheritances' = Append(inheritances, id)
           /\ path_chain' = Append(path_chain, VersionJsonPath(id))
           /\ versions' = Append(versions, r.version)
           /\ inherits_from' = NextParent(r.version)
           /\ files' = StoreAfterLoad(files, id)
    /\ UNCHANGED <<expanded, FabricVars, first, self, platform, pc, error, MergeVars, result>>

\* an iteration whose read_to_string or from_str fails: `?` returns the Err
WalkFail ==
    /\ pc = "walk"
    /\ inherits_from # None
    /\ Len(inheritances) < MaxLoads
    /\ LET id == inherits_from[1]
           r == ReadVersion(id)
       IN  /\ ~r.ok
           /\ inheritances' = Append(inheritances, id)
           /\ path_chain' = Append(path_chain, VersionJsonPath(id))
           /\ pc' = "Err"
           /\ error' = r.err
    /\ UNCHANGED <<expanded, FabricVars, first, files, self, platform, inherits_from, versions, MergeVars, result>>

\* `while let Some(..) = inherits_from` ends on None
WalkDone ==
    /\ pc = "walk"
    /\ inherits_from = None
    /\ pc' = "merge"
    /\ UNCHANGED <<expanded, FabricVars, first, files, self, platform, error, inherits_from, versions,
                   inheritances, path_chain, MergeVars, result>>

(***************************************************************************)
(* Lines 459-489: the merge loop, one popped version per step.             *)
(***************************************************************************)
\* Vec::pop: the last element
PopIndex_Front(vs) == 1

PopIndex(vs) == Len(vs)

\* Vec::append(&mut libraries)
AppendLibraries_Prepend(raw, libraries) == libraries \o raw

AppendLibraries(raw, libraries) == raw \o libraries

\* std::cmp::max(version.minimum_launcher_version.unwrap_or(0), minimum_launcher_version)
MergeMinimumLauncherVersion_Override(v, current) == UnwrapOr(v, current)

MergeMinimumLauncherVersion(v, current) == Max(UnwrapOr(v, 0), current)

MergeStep ==
    /\ pc = "merge"
    /\ versions # <<>>
    /\ LET k == PopIndex(versions)
           version == versions[k]
       IN  /\ versions' = [i \in 1..(Len(versions) - 1) |->
                              IF i < k THEN versions[i] ELSE versions[i + 1]]
           /\ minimum_launcher_version' =
                  MergeMinimumLauncherVersion(version.minimum_launcher_version,
                                              minimum_launcher_version)
           /\ release_time' = UnwrapOr(version.release_time, release_time)
           /\ time' = UnwrapOr(version.time, time)
           /\ logging' = UnwrapOr(version.logging, logging)
           /\ assets' = UnwrapOr(version.assets, assets)
           /\ version_type' = UnwrapOr(version.type, version_type)
           /\ main_class' = UnwrapOr(version.main_class, main_class)
           /\ assets_index' = UnwrapOr(version.asset_index, assets_index)
           /\ java_version' = UnwrapOr(version.java_version, java_version)
           /\ libraries_raw' = IF version.libraries # None
                               THEN AppendLibraries(libraries_raw, version.libraries[1])
                               ELSE libraries_raw
           /\ downloads' = UnwrapOr(version.downloads, downloads)
    /\ UNCHANGED <<expanded, FabricVars, first, files, self, platform, pc, error, inherits_from, inheritances,
                   path_chain, result>>

(***************************************************************************)
(* Lines 491-528: the completeness check and the ResolvedVersion.          *)
(***************************************************************************)
\* the condition of `panic!("Bad Version JSON")`
BadVersionJson ==
    \/ main_class = ""
    \/ assets_index = EmptyAssetIndex
    \/ Cardinality(DOMAIN downloads) = 0

\* Ok(ResolvedVersion { .. }), libraries being the resolved list
BuildResolvedVersion(libraries) ==
    [id |-> self.id,
     arguments |-> Some([game |-> game_args, jvm |-> jvm_args]),
     main_class |-> main_class,
     asset_index |-> self.asset_index,
     assets |-> UnwrapOr(self.assets, ""),
     downloads |-> self.downloads,
     libraries |-> libraries,
     minimum_launcher_version |-> minimum_launcher_version,
     release_time |-> release_time,
     time |-> time,
     version_type |-> version_type,
     logging |-> self.logging,
     java_version |-> UnwrapOr(self.java_version, DefaultJavaVersion),
     minecraft_version |-> UnwrapOr(self.client_version, self.id),
     inheritances |-> inheritances,
     path_chain |-> path_chain]

Finish ==
    /\ pc = "merge"
    /\ versions = <<>>
    /\ IF BadVersionJson
       THEN pc' = "panic" /\ error' = "Bad Version JSON" /\ result' = result
       ELSE LET r == resolve_libraries(libraries_raw, platform) IN
            IF r.panic
            THEN pc' = "panic" /\ error' = "unwrap" /\ result' = result
            ELSE pc' = "Ok" /\ error' = error /\ result' = Some(BuildResolvedVersion(r.libs))
    /\ UNCHANGED <<expanded, FabricVars, first, files, self, platform, inherits_from, versions, inheritances,
                   path_chain, MergeVars>>

\* The caller calls parse a second time on the same leaf, folder and platform:
\* the locals of the new call start as in the first.
ParseAgain ==
    /\ pc \in {"Ok", "Err"}
    /\ first = None
    /\ first' = Some([pc |-> pc, error |-> error, result |-> result])
    /\ pc' = "walk"
    /\ error' = ""
    /\ inherits_from' = self.inherits_from
    /\ versions' = <<self>>
    /\ inheritances' = <<>>
    /\ path_chain' = <<>>
    /\ assets' = ""
    /\ minimum_launcher_version' = 0
    /\ release_time' = ""
    /\ time' = ""
    /\ version_type' = ""
    /\ logging' = <<>>
    /\ main_class' = ""
    /\ assets_index' = EmptyAssetIndex
    /\ java_version' = DefaultJavaVersion
    /\ libraries_raw' = <<>>
    /\ downloads' = <<>>
    /\ result' = None
    /\ UNCHANGED <<files, self, platform, expanded, FabricVars>>

ParseVars == <<error, inherits_from, versions, inheritances, path_chain, MergeVars,
               result, first>>

(***************************************************************************)
(* The argument expanders applied to the game and jvm templates of the     *)
(* leaf descriptor.  Version::new (utils) unwraps both arrays.             *)
(***************************************************************************)
HasTemplates ==
    /\ self.arguments # None
    /\ self.arguments[1].game # None
    /\ self.arguments[1].jvm # None

CoreResolveArguments ==
    /\ pc = "arguments"
    /\ HasTemplates
    /\ LET game == _resolve_arguments(self.arguments[1].game[1], platform)
           jvm == _resolve_arguments(self.arguments[1].jvm[1], platform)
       IN  expanded' = Some([by |-> "core", panic |-> game.panic \/ jvm.panic,
                             game |-> game.tokens, jvm |-> jvm.tokens])
    /\ pc' = "expanded"
    /\ UNCHANGED <<files, self, platform, ParseVars, FabricVars>>

UtilsResolveArguments ==
    /\ pc = "arguments"
    /\ LET r == IF HasTemplates
                THEN utils_resolve_arguments([game |-> self.arguments[1].game[1],
                                              jvm |-> self.arguments[1].jvm[1]],
                                             PlatformInfoGet)
                ELSE [panic |-> TRUE, game |-> <<>>, jvm |-> <<>>]
       IN  expanded' = Some([by |-> "utils", panic |-> r.panic,
                             game |-> r.game, jvm |-> r.jvm])
    /\ pc' = "expanded"
    /\ UNCHANGED <<files, self, platform, ParseVars, FabricVars>>

(***************************************************************************)
(* installer/fabric/install.rs.  A String built by format! is the sequence *)
(* of its pieces, "" is the empty sequence.                                *)
(***************************************************************************)
\* the options install_fabric uses when it is handed None
DefaultFabricInstallOptions ==
    [inherits_from |-> None, version_id |-> None, size |-> None, yarn_version |-> None]

\* LauncherMetaLibrariesItems { name, url } of the fabric maven repository
FabricLibrary(maven) ==
    [name |-> Some(maven), url |-> Some(<<"https://maven.fabricmc.net/">>)]

\* Serialize for Option<String>: null or the string
SerializeOption(opt) == IF opt = None THEN JNull ELSE JStr(opt[1])

\* Serialize for Vec<LauncherMetaLibrariesItems>: an array of objects
SerializeLibraries(libs) ==
    JArr([k \in 1..Len(libs) |->
             JObj([name |-> SerializeOption(libs[k].name),
                   url |-> SerializeOption(libs[k].url)])])

\* serde_json::to_string(&value): the text of a JSON document, a String
to_string(value) == [text_of |-> value]

\* struct FabricVersionJSON, serialised with camelCase keys: `libraries` is a
\* String, the text to_string made of the library list
FabricVersionJSON(id, inherits_from_, main_class_, libs) ==
    JObj([id |-> JStr(id),
          inheritsFrom |-> JStr(inherits_from_),
          mainClass |-> JStr(main_class_),
          libraries |-> JStr(to_string(SerializeLibraries(libs))),
          arguments |-> JObj([game |-> JArr(<<>>), jvm |-> JArr(<<>>)]),
          releaseTime |-> JStr("2023-05-13T15:58:54.493Z"),
          time |-> JStr("2023-05-13T15:58:54.493Z")])

\* main_class[side].as_str().unwrap_or(main_class.as_str().unwrap_or(""))
FabricMainClass(main_class_, side) ==
    IF Get(main_class_, side).t = "string" THEN Get(main_class_, side).v
    ELSE IF main_class_.t = "string" THEN main_class_.v
    ELSE ""

\* install_fabric(loader, minecraft_location, options): the id it returns,
\* the path of the file it writes and the document it writes there
install_fabric(ldr, opts) ==
    LET o == IF opts = None THEN DefaultFabricInstallOptions ELSE opts[1]
        side == UnwrapOr(o.size, "client")
        yarn == IF o.yarn_version = None THEN None
                ELSE Some(o.yarn_version[1].version)
        minecraft_version == IF o.yarn_version = None THEN ldr.intermediary.version
                             ELSE <<>>
        id == IF o.version_id # None THEN o.version_id
              ELSE IF yarn # None
                   THEN Some(minecraft_version \o <<"-loader">> \o ldr.loader.version)
                   ELSE Some(minecraft_version \o <<"-fabric">> \o ldr.loader.version)
        libs == <<FabricLibrary(ldr.loader.maven), FabricLibrary(ldr.intermediary.maven)>>
                    \o (IF yarn # None
                        THEN <<FabricLibrary(<<"net.fabricmc:yarn:">> \o yarn[1])>>
                        ELSE <<>>)
                    \o ldr.launcher_meta.libraries.common
                    \o (IF side = "client" THEN ldr.launcher_meta.libraries.client
                        ELSE ldr.launcher_meta.libraries.server)
        main_class_ == FabricMainClass(ldr.launcher_meta.main_class, side)
        inherits_from_ == UnwrapOr(o.inherits_from, minecraft_version)
    IN  [id |-> UnwrapOr(id, <<>>),
         path |-> VersionJsonPath(id[1]),
         document |-> FabricVersionJSON(UnwrapOr(id, <<>>), inherits_from_,
                                        main_class_, libs)]

\* Deserialize for an Option<T> field: absent or null is None, a value of
\* another JSON type than T's is an error
FieldOk(raw, key, type) == Get(raw, key).t \in {"null", type}
FieldOf(raw, key) == IF Get(raw, key).t = "null" THEN None ELSE Some(Get(raw, key).v)

\* Version::from_value / from_str: serde's derived Deserialize of Version.
\* `id` is required; the members of the nested structures are kept as read.
from_value(raw) ==
    LET args == Get(raw, "arguments")
        well_typed ==
            /\ raw.t = "object"
            /\ Get(raw, "id").t = "string"
            /\ \A k \in {"time", "type", "releaseTime", "inheritsFrom",
                         "minecraftArguments", "mainClass", "jar", "assets",
                         "client", "server", "clientVersion"} :
                   FieldOk(raw, k, "string")
            /\ FieldOk(raw, "minimumLauncherVersion", "number")
            /\ FieldOk(raw, "libraries", "array")
            /\ \A k \in {"assetIndex", "downloads", "logging", "javaVersion"} :
                   FieldOk(raw, k, "object")
            /\ FieldOk(raw, "arguments", "object")
            /\ FieldOk(args, "game", "array")
            /\ FieldOk(args, "jvm", "array")
    IN  IF ~well_typed THEN [ok |-> FALSE, err |-> "json", version |-> None]
        ELSE [ok |-> TRUE, err |-> "",
              version |->
                  Some(Version(Get(raw, "id").v, FieldOf(raw, "inheritsFrom"),
                          FieldOf(raw, "minimumLauncherVersion"),
                          FieldOf(raw, "mainClass"), FieldOf(raw, "libraries"),
                          FieldOf(raw, "assetIndex"), FieldOf(raw, "assets"),
                          FieldOf(raw, "downloads"), FieldOf(raw, "javaVersion"),
                          FieldOf(raw, "releaseTime"), FieldOf(raw, "time"),
                          FieldOf(raw, "type"), FieldOf(raw, "logging"),
                          FieldOf(raw, "clientVersion"),
                          IF args.t = "null" THEN None
                          ELSE Some([game |-> FieldOf(args, "game"),
                                     jvm |-> FieldOf(args, "jvm")])))]

\* Version::from_versions_folder(minecraft, version_name) on the folder
\* install_fabric wrote to
from_versions_folder(version_name) ==
    IF installed # None /\ installed[1].path = VersionJsonPath(version_name)
    THEN from_value(installed[1].document)
    ELSE [ok |-> FALSE, err |-> "io", version |-> None]

InstallFabric ==
    /\ pc = "install"
    /\ installed' = Some(install_fabric(loader, options))
    /\ pc' = "installed"
    /\ UNCHANGED <<files, self, platform, ParseVars, expanded, loader, options, loaded>>

\* the caller reads the installed version by the id install_fabric returned
LoadInstalled ==
    /\ pc = "installed"
    /\ loaded' = Some(from_versions_folder(installed[1].id))
    /\ pc' = "loaded"
    /\ UNCHANGED <<files, self, platform, ParseVars, expanded, loader, options, installed>>

(***************************************************************************)
(* The inputs: a versions folder with the files of three ids, the leaf     *)
(* being the version read from a.json, and a platform.                     *)
(***************************************************************************)
Ids == {"a", "b", "c"}
LeafId == "a"

Linux == [name |-> "linux", version |-> <<"5", ".", "1", "5">>]
Windows == [name |-> "windows", version |-> <<"1", "0", ".", "0">>]
Platforms == {Linux, Windows}

MainClassOf(id) == [a |-> "MainA", b |-> "MainB", c |-> "MainC"][id]
AssetIndexOf(id) == [size |-> 1, url |-> "https://meta/index", id |-> id, total_size |-> 2]
Download(tag) == [sha1 |-> tag, size |-> 1, url |-> "https://data/jar"]
DownloadsOf(id) ==
    [a |-> [client |-> Download("a")],
     b |-> [client |-> Download("b"), server |-> Download("b")],
     c |-> [server |-> Download("c"), client_mappings |-> Download("c")]][id]
JavaVersionOf(id) ==
    [component |-> "java-runtime", major_version |-> [a |-> 21, b |-> 17, c |-> 16][id]]
EmptyMap == <<>>

\* A descriptor of id with every merged field present.
Complete(id, parent) ==
    Version(id, parent, Some(1), Some(MainClassOf(id)), Some(<<>>),
            Some(AssetIndexOf(id)), Some(id), Some(DownloadsOf(id)),
            Some(JavaVersionOf(id)), Some(id), Some(id), Some("release"),
            None, None, None)

Absent == [kind |-> "absent", version |-> None]
Garbled == [kind |-> "garbled", version |-> None]
File(version) == [kind |-> "ok", version |-> version]

\* the parent of the i-th descriptor of a chain a -> b -> c of n descriptors
ChainParent(id, n) ==
    CASE id = "a" /\ n >= 2 -> Some("b")
      [] id = "b" /\ n >= 3 -> Some("c")
      [] OTHER -> None
InChain(id, n) == \/ id = "a"
                  \/ id = "b" /\ n >= 2
                  \/ id = "c" /\ n >= 3

\* Slice 1: every shape of the parent pointers (chains, cycles, pointers to
\* missing and unparsable files), main_class present or not.
WalkChoices(id) ==
    { [Complete(id, p) EXCEPT !.main_class = mc] :
          p \in {None} \cup {Some(q) : q \in Ids},
          mc \in {None, Some(MainClassOf(id))} }
WalkSlot(id) == {Absent, Garbled} \cup {File(v) : v \in WalkChoices(id)}
WalkFolder ==
    \E fa \in {File(v) : v \in WalkChoices("a")}, fb \in WalkSlot("b"), fc \in WalkSlot("c") :
        files = [a |-> fa, b |-> fb, c |-> fc]

\* Slice 2: the fields of the completeness check, each absent, empty or set.
RequiredChoices(id, parent) ==
    { [Complete(id, parent) EXCEPT !.main_class = mc, !.asset_index = ai, !.downloads = dl] :
          mc \in {None, Some(""), Some(MainClassOf(id))},
          ai \in {None, Some(EmptyAssetIndex), Some(AssetIndexOf(id))},
          dl \in {None, Some(EmptyMap), Some(DownloadsOf(id))} }

\* Slice 3: the other merged scalars.
ScalarChoices(id, parent) ==
    { [Complete(id, parent) EXCEPT !.minimum_launcher_version = mlv,
                                   !.java_version = jv, !.assets = as] :
          mlv \in {None, Some(-1), Some(2), Some(5)},
          jv \in {None, Some(JavaVersionOf(id))},
          as \in {None, Some(id)} }

\* Slice 4: the libraries arrays.  An entry with an artifact download that
\* every descriptor may carry, an entry gated by an os rule, and a legacy
\* entry known by its maven name only.
ArtifactOf(tag) ==
    JObj([sha1 |-> JStr("sha1"), size |-> JNum(10),
          url |-> JStr(<<"https://libraries/">> \o tag),
          path |-> JStr(tag)])
CommonLibrary ==
    JObj([name |-> JStr(<<"com", ".", "common", ":", "lib", ":", "1">>),
          downloads |-> JObj([artifact |-> ArtifactOf(<<"com", "/", "common", ".jar">>)])])
GatedLibrary(id) ==
    JObj([name |-> JStr(<<"org", ".", id, ":", "gated", ":", "1">>),
          downloads |-> JObj([artifact |-> ArtifactOf(<<"org", "/", id, "/", "gated", ".jar">>)]),
          rules |-> JArr(<<JObj([action |-> JStr("allow"),
                                 os |-> JObj([name |-> JStr("linux")])])>>)])
LegacyLibrary(id) ==
    JObj([name |-> JStr(<<"net", ".", id, ":", "lib", ":", "1", ".", "0">>)])
LibraryPool(id) ==
    CASE id = "a" -> {CommonLibrary, GatedLibrary(id), LegacyLibrary(id)}
      [] id = "b" -> {CommonLibrary, GatedLibrary(id)}
      [] OTHER    -> {CommonLibrary, LegacyLibrary(id)}
LibraryChoices(id, parent) ==
    { [Complete(id, parent) EXCEPT !.libraries = libs] :
          libs \in {None} \cup
                   {Some(l) : l \in UNION {[1..k -> LibraryPool(id)] : k \in 0..MaxLibs}} }

\* Slice 6: the arguments sections: absent, game templates only, or game and
\* jvm templates, among them a template gated by an os rule and one with a
\* list of values.
GameLiteral(id) == JStr([a |-> "--demo", b |-> "--fullscreen", c |-> "--server"][id])
JvmLiteral(id) == JStr([a |-> "-Xmx2G", b |-> "-Xss1M", c |-> "-XX:+UseG1GC"][id])
AllowOn(osname) == JObj([action |-> JStr("allow"), os |-> JObj([name |-> JStr(osname)])])
GatedArgument ==
    JObj([rules |-> JArr(<<AllowOn("windows")>>),
          value |-> JStr("-XX:HeapDumpPath=MojangTricksIntelDriversForPerformance")])
ListArgument ==
    JObj([rules |-> JArr(<<AllowOn("linux")>>),
          value |-> JArr(<<JStr("--width"), JStr("854")>>)])
ArgumentsOf(id) ==
    {None,
     Some([game |-> Some(<<GameLiteral(id), ListArgument>>), jvm |-> None]),
     Some([game |-> Some(<<GameLiteral(id)>>),
           jvm |-> Some(<<GatedArgument, JvmLiteral(id)>>)])}
ArgumentChoices(id, parent) ==
    { [Complete(id, parent) EXCEPT !.arguments = args] : args \in ArgumentsOf(id) }

\* The files of a chain a -> b -> c of n descriptors, each drawn from the
\* choices of a slice; the files of the other ids are absent.
Choices(slice, id, parent) ==
    CASE slice = "required" -> RequiredChoices(id, parent)
      [] slice = "scalar"   -> ScalarChoices(id, parent)
      [] slice = "arguments" -> ArgumentChoices(id, parent)
      [] OTHER              -> LibraryChoices(id, parent)
ChainSlot(slice, id, n) ==
    IF InChain(id, n) THEN {File(v) : v \in Choices(slice, id, ChainParent(id, n))}
    ELSE {Absent}
ChainFolder(slice) ==
    \E n \in 1..3 :
        \E fa \in ChainSlot(slice, "a", n),
           fb \in ChainSlot(slice, "b", n),
           fc \in ChainSlot(slice, "c", n) :
            files = [a |-> fa, b |-> fb, c |-> fc]

\* Slice 5: a single descriptor whose libraries array holds a native entry
\* (classifiers and natives for linux only), an artifact download without
\* sha1 and size, and an entry whose rule has no action.
NativeLibrary ==
    JObj([name |-> JStr(<<"org", ".", "lwjgl", ":", "platform", ":", "2">>),
          downloads |-> JObj([classifiers |->
              JObj([nativeslinux |-> ArtifactOf(<<"org", "/", "lwjgl", "/", "natives-linux.jar">>)])]),
          natives |-> JObj([linux |-> JStr("nativeslinux")])])
BrokenArtifactLibrary ==
    JObj([name |-> JStr(<<"org", ".", "broken", ":", "lib", ":", "1">>),
          downloads |-> JObj([artifact |->
              JObj([url |-> JStr(<<"https://libraries/broken.jar">>),
                    path |-> JStr(<<"broken.jar">>)])])])
NoActionLibrary ==
    JObj([name |-> JStr(<<"org", ".", "noaction", ":", "lib", ":", "1">>),
          downloads |-> JObj([artifact |-> ArtifactOf(<<"noaction.jar">>)]),
          rules |-> JArr(<<JObj([os |-> JObj([name |-> JStr("linux")])])>>)])
OddLibraryPool == {CommonLibrary, NativeLibrary, BrokenArtifactLibrary, NoActionLibrary}
OddLibraryChoices ==
    { [Complete(LeafId, None) EXCEPT !.libraries = Some(l)] :
          l \in UNION {[1..k -> OddLibraryPool] : k \in 1..MaxLibs} }
OddFolder ==
    \E v \in OddLibraryChoices : files = [a |-> File(v), b |-> Absent, c |-> Absent]

\* Slice 7: a single descriptor with one library whose rules array is drawn
\* from rules with and without an os clause, with and without a name, a
\* version pattern, a features map and an action.
RuleOf(action, os) == JObj([action |-> JStr(action), os |-> os])
OsNamed(osname) == JObj([name |-> JStr(osname)])
OsVersioned(osname, pattern) == JObj([name |-> JStr(osname), version |-> JStr(pattern)])
AllowRule == JObj([action |-> JStr("allow")])
DenyRule == JObj([action |-> JStr("disallow")])
VersionOnlyRule == RuleOf("allow", JObj([version |-> JStr(<<"^", "1", "0">>)]))
FeatureRule ==
    JObj([action |-> JStr("allow"), features |-> JObj([is_demo_user |-> JBool(TRUE)])])
NameAndFeaturesRule ==
    RuleOf("allow", JObj([name |-> JStr("linux"),
                          features |-> JObj([has_custom_resolution |-> JBool(TRUE)])]))
NoActionRule == JObj([os |-> OsNamed("linux")])
BadPatternRule == RuleOf("allow", OsVersioned("linux", <<"(", "5">>))
RulePool ==
    {AllowRule, DenyRule,
     RuleOf("allow", OsNamed("linux")), RuleOf("disallow", OsNamed("linux")),
     RuleOf("allow", OsNamed("windows")),
     RuleOf("allow", OsVersioned("linux", <<"1", "5">>)),
     RuleOf("disallow", OsVersioned("linux", <<"^", "1", "5">>)),
     VersionOnlyRule, FeatureRule, NameAndFeaturesRule, NoActionRule, BadPatternRule}
RuledLibrary(rules) ==
    JObj([name |-> JStr(<<"org", ".", "ruled", ":", "lib", ":", "1">>),
          downloads |-> JObj([artifact |-> ArtifactOf(<<"org", "/", "ruled", ".jar">>)]),
          rules |-> JArr(rules)])
RuleFolder ==
    \E rules \in UNION {[1..k -> RulePool] : k \in 0..MaxRules} :
        files = [a |-> File([Complete(LeafId, None) EXCEPT
                                 !.libraries = Some(<<RuledLibrary(rules)>>)]),
                 b |-> Absent, c |-> Absent]

\* Slice 8: a single descriptor whose libraries array is drawn from the
\* shapes of an entry: native entries (with and without an artifact download,
\* a name, a classifier for every native key) and legacy entries (with an
\* explicit url, with two and with four name segments).
NativeKeys == JObj([linux |-> JStr("nativeslinux"), windows |-> JStr("nativeswindows")])
LinuxClassifier == ArtifactOf(<<"org", "/", "lwjgl", "/", "natives-linux.jar">>)
WindowsClassifier == ArtifactOf(<<"org", "/", "lwjgl", "/", "natives-windows.jar">>)
NativePairLibrary ==
    JObj([name |-> JStr(<<"org", ".", "lwjgl", ":", "lwjgl", ":", "3">>),
          downloads |-> JObj([artifact |-> ArtifactOf(<<"org", "/", "lwjgl", "/", "lwjgl.jar">>),
                              classifiers |-> JObj([nativeslinux |-> LinuxClassifier,
                                                    nativeswindows |-> WindowsClassifier])]),
          natives |-> NativeKeys])
NativeUnclassifiedLibrary ==
    JObj([name |-> JStr(<<"org", ".", "jinput", ":", "platform">>),
          downloads |-> JObj([classifiers |-> JObj([nativeslinux |-> LinuxClassifier])]),
          natives |-> NativeKeys])
NativeOnlyLibrary ==
    JObj([downloads |-> JObj([classifiers |-> JObj([nativeslinux |-> LinuxClassifier,
                                                    nativeswindows |-> WindowsClassifier])]),
          natives |-> NativeKeys])
LegacyUrlLibrary ==
    JObj([name |-> JStr(<<"net", ".", "example", ":", "lib", ":", "1", ".", "0">>),
          url |-> JStr(<<"https://maven.example/">>)])
LegacyTwoSegments ==
    JObj([name |-> JStr(<<"net", ".", "example", ":", "lib">>)])
LegacyFourSegments ==
    JObj([name |-> JStr(<<"net", ".", "example", ":", "lib", ":", "1", ":", "natives">>),
          url |-> JStr(<<"https://maven.example/">>)])
ShapeLibraryPool ==
    {CommonLibrary, NativeLibrary, NativePairLibrary, NativeUnclassifiedLibrary,
     NativeOnlyLibrary, LegacyLibrary(LeafId), LegacyUrlLibrary, LegacyTwoSegments,
     LegacyFourSegments}
ShapeFolder ==
    \E l \in UNION {[1..k -> ShapeLibraryPool] : k \in 1..MaxLibs} :
        files = [a |-> File([Complete(LeafId, None) EXCEPT !.libraries = Some(l)]),
                 b |-> Absent, c |-> Absent]

\* Slice 9: a single descriptor whose libraries array holds artifact and
\* classifier downloads with the empty string as url and path.
EmptyDownload == JObj([sha1 |-> JStr("sha1"), size |-> JNum(10),
                       url |-> JStr(<<>>), path |-> JStr(<<>>)])
EmptyArtifactLibrary ==
    JObj([name |-> JStr(<<"org", ".", "empty", ":", "lib", ":", "1">>),
          downloads |-> JObj([artifact |-> EmptyDownload])])
EmptyClassifierLibrary ==
    JObj([downloads |-> JObj([classifiers |-> JObj([nativeslinux |-> EmptyDownload,
                                                    nativeswindows |-> EmptyDownload])]),
          natives |-> NativeKeys])
EmptyUrlFolder ==
    \E l \in UNION {[1..k -> {CommonLibrary, EmptyArtifactLibrary, EmptyClassifierLibrary}] :
                        k \in 1..MaxLibs} :
        files = [a |-> File([Complete(LeafId, None) EXCEPT !.libraries = Some(l)]),
                 b |-> Absent, c |-> Absent]

\* Slice 10: a single descriptor whose game templates are drawn, with
\* repetition, from literals and conditional templates: gated by an os name,
\* by an os version, by an os clause without a name, without rules, with a
\* single value and with a list of values.
MaxArgs == 3
UngatedArgument == JObj([value |-> JStr("--quickPlaySingleplayer")])
ArchGatedArgument ==
    JObj([rules |-> JArr(<<RuleOf("allow", JObj([arch |-> JStr("x86")]))>>),
          value |-> JStr("-Xss1M")])
VersionGatedArgument ==
    JObj([rules |-> JArr(<<RuleOf("allow", OsVersioned("windows", <<"^", "1", "0", "\\.">>))>>),
          value |-> JArr(<<JStr("-Dos.name=Windows 10"), JStr("-Dos.version=10.0")>>)])
TemplatePool ==
    <<GameLiteral("a"), GameLiteral("b"), ListArgument, GatedArgument,
      UngatedArgument, ArchGatedArgument, VersionGatedArgument>>
TemplateFolder ==
    \E ix \in UNION {[1..k -> DOMAIN TemplatePool] : k \in 0..MaxArgs} :
        files = [a |-> File([Complete(LeafId, None) EXCEPT
                                 !.arguments =
                                     Some([game |-> Some([k \in DOMAIN ix |-> TemplatePool[ix[k]]]),
                                           jvm |-> Some(<<JvmLiteral("a"), GatedArgument>>)])]),
                 b |-> Absent, c |-> Absent]

\* Slice 11: the loader artifacts and the options of install_fabric.
FabricArtifactVersion(artifact, version) ==
    [version |-> version, maven |-> <<"net.fabricmc:", artifact, ":">> \o version]
LauncherMeta(main_class_) ==
    [libraries |->
         [common |-> <<[name |-> Some(<<"net.fabricmc:tiny-mappings-parser:0.3.0">>),
                        url |-> Some(<<"https://maven.fabricmc.net/">>)]>>,
          client |-> <<>>,
          server |-> <<[name |-> Some(<<"com.google.guava:guava:21.0">>),
                        url |-> None]>>],
     main_class |-> main_class_]
FabricLoaderArtifact(loader_version, minecraft, main_class_) ==
    [loader |-> FabricArtifactVersion("fabric-loader", loader_version),
     intermediary |-> FabricArtifactVersion("intermediary", minecraft),
     launcher_meta |-> LauncherMeta(main_class_)]
MainClasses ==
    <<JStr("net.fabricmc.loader.launch.knot.KnotClient"),
      JObj([client |-> JStr("net.fabricmc.loader.impl.launch.knot.KnotClient"),
            server |-> JStr("net.fabricmc.loader.impl.launch.knot.KnotServer")])>>
LoaderChoice ==
    \E lv \in {<<"0.14.19">>, <<"0.14.21">>}, mc \in {<<"1.19.4">>, <<"1.20.1">>},
       m \in DOMAIN MainClasses :
        loader = FabricLoaderArtifact(lv, mc, MainClasses[m])
\* enum YarnVersion { String(String), FabricArtifactVersion(FabricArtifactVersion) }
YarnVersions ==
    {[variant |-> "String", version |-> <<"1.19.4+build.2">>, maven |-> <<>>],
     [variant |-> "FabricArtifactVersion", version |-> <<"1.20.1+build.10">>,
      maven |-> <<"net.fabricmc:", "yarn", ":", "1.20.1+build.10">>]}
FabricInstallOptions ==
    [inherits_from : {None, Some(<<"1.19.4">>), Some(<<"1.19.4-forge">>)},
     version_id : {None, Some(<<"my-fabric">>)},
     size : {None, Some("client"), Some("server")},
     yarn_version : {None} \cup {Some(y) : y \in YarnVersions}]
DefaultLoader == FabricLoaderArtifact(<<"0.14.19">>, <<"1.19.4">>, MainClasses[1])

Init ==
    /\ \/ /\ pc = "walk"
          /\ \/ WalkFolder /\ platform = Linux
             \/ ChainFolder("required") /\ platform = Linux
             \/ ChainFolder("scalar") /\ platform = Linux
             \/ ChainFolder("library") /\ platform \in Platforms
             \/ OddFolder /\ platform \in Platforms
             \/ ChainFolder("arguments") /\ platform \in Platforms
             \/ RuleFolder /\ platform \in Platforms
             \/ ShapeFolder /\ platform \in Platforms
             \/ EmptyUrlFolder /\ platform \in Platforms
          /\ loader = DefaultLoader
          /\ options = None
       \/ /\ pc = "arguments"
          /\ TemplateFolder
          /\ platform \in Platforms
          /\ loader = DefaultLoader
          /\ options = None
       \/ /\ pc = "install"
          /\ files = [a |-> File(Complete(LeafId, None)), b |-> Absent, c |-> Absent]
          /\ platform = Linux
          /\ LoaderChoice
          /\ options \in {None} \cup {Some(o) : o \in FabricInstallOptions}
    /\ self = files[LeafId].version
    /\ error = ""
    /\ inherits_from = self.inherits_from
    /\ versions = <<self>>
    /\ inheritances = <<>>
    /\ path_chain = <<>>
    /\ assets = ""
    /\ minimum_launcher_version = 0
    /\ release_time = ""
    /\ time = ""
    /\ version_type = ""
    /\ logging = EmptyMap
    /\ main_class = ""
    /\ assets_index = EmptyAssetIndex
    /\ java_version = DefaultJavaVersion
    /\ libraries_raw = <<>>
    /\ downloads = EmptyMap
    /\ result = None
    /\ first = None
    /\ expanded = None
    /\ installed = None
    /\ loaded = None

Next ==
    \/ WalkLoad \/ WalkFail \/ WalkDone \/ MergeStep \/ Finish \/ ParseAgain
    \/ CoreResolveArguments \/ UtilsResolveArguments
    \/ InstallFabric \/ LoadInstalled

Spec == Init /\ [][Next]_vars

(***************************************************************************)
(* Reference definitions for the properties below.                         *)
(***************************************************************************)
\* The descriptors of the chain, leaf first: the leaf and the file of every
\* id the walk has followed.
Chain ==
    <<self>> \o [i \in 1..Len(inheritances) |-> files[inheritances[i]].version]

\* The id of the leaf followed by the ids the walk has followed.
ChainIds == <<self.id>> \o inheritances

HasRepeat(s) == \E i, j \in 1..Len(s) : i < j /\ s[i] = s[j]

Unreadable(id) == files[id].kind # "ok"

\* The merge loop has consumed every descriptor of the chain.
MergeFinished == pc \in {"Ok", "panic"} \/ (pc = "merge" /\ versions = <<>>)

Returned == pc \in {"Ok", "Err", "panic"}

\* The value (an Option) of the field in the descriptor closest to the leaf
\* that has it.
NearestDefined(chain, field) ==
    LET has == {i \in 1..Len(chain) : chain[i][field] # None} IN
    IF has = {} THEN None
    ELSE chain[CHOOSE i \in has : \A j \in has : i <= j][field]

AncestorDefines(field) ==
    \E i \in 2..Len(Chain) : Chain[i][field] # None

SetMax(S) == CHOOSE m \in S : \A n \in S : n <= m

\* The minimum_launcher_version values present in the chain.
LauncherVersions ==
    {Chain[i].minimum_launcher_version[1] :
         i \in {j \in 1..Len(Chain) : Chain[j].minimum_launcher_version # None}}

RECURSIVE RootToLeafLibraries(_)
\* The libraries of a chain (leaf first), the root's entries first.
RootToLeafLibraries(chain) ==
    IF chain = <<>> THEN <<>>
    ELSE RootToLeafLibraries(Tail(chain))
             \o UnwrapOr(Head(chain).libraries, <<>>)

\* The paths a raw library entry names: of its artifact download, of its
\* classifiers, and the one derived from a three-part maven name.
EntryPaths(e) ==
    LET artifact == Get(Get(e, "downloads"), "artifact")
        classifiers == Get(Get(e, "downloads"), "classifiers")
        name == Get(e, "name")
    IN  (IF Get(artifact, "path").t = "string" THEN {Get(artifact, "path").v} ELSE {})
        \cup (IF classifiers.t = "object"
              THEN {Get(classifiers.v[k], "path").v :
                        k \in {x \in DOMAIN classifiers.v :
                                   Get(classifiers.v[x], "path").t = "string"}}
              ELSE {})
        \cup (IF name.t = "string" /\ Len(Split(name.v, ":")) = 3
              THEN LET parts == Split(name.v, ":") IN
                   {LegacyPath(Replace(parts[1], ".", "/"), parts[2], parts[3])}
              ELSE {})

RECURSIVE KeepsOrder(_, _, _, _)
\* The records res[i..] come, in order, from entries of raw[p..]: each record
\* from an entry at or after the entry of the record before it.
KeepsOrder(res, i, raw, p) ==
    IF i > Len(res) THEN TRUE
    ELSE LET from == {q \in p..Len(raw) :
                         res[i].download_info.path \in EntryPaths(raw[q])} IN
         /\ from # {}
         /\ KeepsOrder(res, i + 1, raw, CHOOSE q \in from : \A r \in from : q <= r)

\* An entry with an artifact download, no rules and no natives map.
IsPlainEntry(e) ==
    /\ Get(Get(e, "downloads"), "artifact").t = "object"
    /\ Get(e, "rules").t = "null"
    /\ Get(e, "natives").t = "null"

(***************************************************************************)
(* The properties.                                                         *)
(***************************************************************************)
\* C1: a chain whose parent pointers repeat an id is rejected with an error:
\* once the ids of the walk hold a repeated id, parse has returned an Err.
C1_CycleRejected ==
    HasRepeat(ChainIds) => pc = "Err"

\* C2: when the merged descriptor has an empty main_class, the all-empty
\* asset index or no downloads, parse returns an error value to the caller
\* and does not panic.
C2_IncompleteIsError ==
    (Returned /\ versions = <<>> /\ BadVersionJson) => pc = "Err"

\* C3: once the walk has reached a parent id whose file is missing or cannot
\* be parsed, parse has returned an error and no ResolvedVersion.
C3_UnreadableAncestorIsError ==
    /\ (\E i \in 1..Len(inheritances) : Unreadable(inheritances[i]))
           => (pc = "Err" /\ result = None)
    /\ pc = "Err" => result = None

C3_Witness ==
    /\ pc = "Err"
    /\ Len(inheritances) >= 2
    /\ ~Unreadable(inheritances[1])
    /\ Unreadable(Last(inheritances))
    /\ result = None

\* C4: the merged main_class is the main_class of the descriptor closest to
\* the leaf that sets one, and the ResolvedVersion carries it.
C4_MainClassNearest ==
    /\ MergeFinished => main_class = UnwrapOr(NearestDefined(Chain, "main_class"), "")
    /\ pc = "Ok" => /\ NearestDefined(Chain, "main_class") # None
                    /\ result[1].main_class = NearestDefined(Chain, "main_class")[1]

C4_Witness ==
    /\ pc = "Ok"
    /\ Len(Chain) = 3
    /\ self.main_class = None
    /\ Chain[2].main_class = Some("MainB")
    /\ Chain[3].main_class = Some("MainC")
    /\ result[1].main_class = "MainB"

\* C5: when the leaf omits asset_index and an ancestor defines it, the
\* returned asset_index is the nearest ancestor's value.
C5_AssetIndexInherited ==
    (pc = "Ok" /\ self.asset_index = None /\ AncestorDefines("asset_index"))
        => result[1].asset_index = NearestDefined(Chain, "asset_index")

\* C6: the returned downloads map is, as a whole, the map of the descriptor
\* closest to the leaf that defines one.
C6_DownloadsNearest ==
    pc = "Ok" => result[1].downloads = NearestDefined(Chain, "downloads")

\* C7: the returned java_version is the one of the descriptor closest to the
\* leaf that defines one, the jre-legacy/8 default when none does.
C7_JavaVersionNearest ==
    pc = "Ok" => result[1].java_version =
                     UnwrapOr(NearestDefined(Chain, "java_version"), DefaultJavaVersion)

\* C8: a returned ResolvedVersion has a non-empty main_class, a present
\* asset_index other than the all-empty record and a present, non-empty
\* downloads map.
C8_ResolvedIsComplete ==
    pc = "Ok" => /\ result[1].main_class # ""
                 /\ result[1].asset_index # None
                 /\ result[1].asset_index[1] # EmptyAssetIndex
                 /\ result[1].downloads # None
                 /\ Cardinality(DOMAIN result[1].downloads[1]) > 0

\* C9, as stated: the returned minimum_launcher_version is the maximum of the
\* values the descriptors of the chain carry.
C9_MaxOfChain ==
    (pc = "Ok" /\ LauncherVersions # {})
        => result[1].minimum_launcher_version = SetMax(LauncherVersions)

\* C9, amended: the returned minimum_launcher_version is the maximum of 0 and
\* the values the descriptors of the chain carry, whatever their position.
C9_MaxOfChainAndZero ==
    /\ MergeFinished => minimum_launcher_version = SetMax(LauncherVersions \cup {0})
    /\ pc = "Ok" => result[1].minimum_launcher_version = SetMax(LauncherVersions \cup {0})

C9_Witness ==
    /\ pc = "Ok"
    /\ Len(Chain) >= 2
    /\ self.minimum_launcher_version = Some(2)
    /\ Chain[2].minimum_launcher_version = Some(5)
    /\ result[1].minimum_launcher_version = 5

\* C10: the raw library list handed to resolve_libraries is the libraries of
\* the chain concatenated root first, duplicates kept, and the resolved list
\* keeps the order of the entries its records come from.
C10_LibrariesRootToLeaf ==
    /\ MergeFinished => libraries_raw = RootToLeafLibraries(Chain)
    /\ pc = "Ok" =>
           /\ KeepsOrder(result[1].libraries, 1, libraries_raw, 1)
           /\ \A p \in 1..Len(libraries_raw) :
                  IsPlainEntry(libraries_raw[p]) =>
                      Cardinality({i \in 1..Len(result[1].libraries) :
                                       result[1].libraries[i].download_info.path
                                           \in EntryPaths(libraries_raw[p])})
                          >= Cardinality({q \in 1..Len(libraries_raw) :
                                              libraries_raw[q] = libraries_raw[p]})

C10_Witness ==
    /\ pc = "Ok"
    /\ Len(Chain) = 3
    /\ Chain[3].libraries = Some(<<CommonLibrary, LegacyLibrary("c")>>)
    /\ Chain[2].libraries = Some(<<GatedLibrary("b"), CommonLibrary>>)
    /\ self.libraries = Some(<<LegacyLibrary("a"), CommonLibrary>>)
    /\ platform = Linux
    /\ Len(result[1].libraries) = 6
    /\ result[1].libraries[1] = result[1].libraries[4]
    /\ result[1].libraries[6] = result[1].libraries[1]
    /\ result[1].libraries[5].download_info.path =
           <<"net", "/", "a", "/", "lib", "/", "1", ".", "0", "/",
             "lib", "-", "1", ".", "0", ".jar">>
\* The templates of one kind ("game" or "jvm") a descriptor supplies.
TemplatesOf(v, kind) ==
    IF v.arguments = None THEN <<>> ELSE UnwrapOr(v.arguments[1][kind], <<>>)

RECURSIVE RootToLeafTemplates(_, _)
\* The templates of a chain (leaf first), the root's templates first.
RootToLeafTemplates(chain, kind) ==
    IF chain = <<>> THEN <<>>
    ELSE RootToLeafTemplates(Tail(chain), kind) \o TemplatesOf(Head(chain), kind)

\* C11: when descriptors of the chain supply game (jvm) argument templates,
\* the returned game (jvm) token list is the expansion of the chain's
\* templates concatenated root first: literals as they are, the values of a
\* conditional template exactly when its rules allow.
C11_ArgumentsExpanded ==
    pc = "Ok" =>
        \A kind \in {"game", "jvm"} :
            RootToLeafTemplates(Chain, kind) # <<>> =>
                result[1].arguments[1][kind] =
                    _resolve_arguments(RootToLeafTemplates(Chain, kind), platform).tokens

\* C12: when no descriptor of the chain supplies an argument template, the
\* returned game and jvm token lists are the built-in default lists in their
\* fixed order, and neither is empty.
C12_DefaultArguments ==
    (pc = "Ok" /\ \A kind \in {"game", "jvm"} : RootToLeafTemplates(Chain, kind) = <<>>)
        => /\ result[1].arguments # None
           /\ result[1].arguments[1].game = DEFAULT_GAME_ARGS
           /\ result[1].arguments[1].jvm = DEFAULT_JVM_ARGS
           /\ Len(result[1].arguments[1].game) = 26
           /\ result[1].arguments[1].game[1] = "--username"
           /\ result[1].arguments[1].game[26] = "${resolution_height}"
           /\ Len(result[1].arguments[1].jvm) = 16
           /\ result[1].arguments[1].jvm[15] = "-cp"
           /\ result[1].arguments[1].jvm[16] = "${classpath}"

C12_Witness ==
    /\ pc = "Ok"
    /\ Len(Chain) = 3
    /\ \A i \in 1..3 : Chain[i].arguments = None
    /\ Len(result[1].arguments[1].game) = 26
    /\ Len(result[1].arguments[1].jvm) = 16
\* The rules arrays of the libraries of the leaf.
RulesInPlay ==
    LET libs == UnwrapOr(self.libraries, <<>>) IN
    {Get(libs[i], "rules").v : i \in {j \in 1..Len(libs) : Get(libs[j], "rules").t = "array"}}

\* No rule of the list carries a features map, in the rule or in its os clause.
NoFeatureConstraints(rules) ==
    \A i \in 1..Len(rules) :
        /\ Get(rules[i], "features").t = "null"
        /\ Get(Get(rules[i], "os"), "features").t = "null"

\* Every rule of the list has an action and a version pattern, if any, that
\* is a regular expression.
WellFormedRules(rules) ==
    \A i \in 1..Len(rules) :
        /\ Get(rules[i], "action").t = "string"
        /\ Get(Get(rules[i], "os"), "version").t = "string"
               => RegexValid(Get(Get(rules[i], "os"), "version").v)

\* The reference: a rule matches iff it has no os constraint, or its os name
\* is the platform's and it has no version pattern or the pattern matches
\* somewhere in the platform's version.
RuleMatches(rule, pf) ==
    LET os == Get(rule, "os") IN
    \/ os.t # "object"
    \/ /\ Get(os, "name").t = "string"
       /\ Get(os, "name").v = pf.name
       /\ \/ Get(os, "version").t # "string"
          \/ \E j \in 1..(Len(pf.version) + 1) :
                 MatchHere(Get(os, "version").v, 1, pf.version, j)

\* The reference: true for the empty list, else the action of the last rule
\* that matches, false when none does.
LastMatchWins(rules, pf) ==
    LET matching == {i \in 1..Len(rules) : RuleMatches(rules[i], pf)} IN
    IF rules = <<>> THEN TRUE
    ELSE IF matching = {} THEN FALSE
    ELSE Get(rules[CHOOSE i \in matching : \A j \in matching : j <= i], "action").v = "allow"

\* The library of the rules slice is in the returned list.
RuledLibraryResolved ==
    \E i \in 1..Len(result[1].libraries) :
        result[1].libraries[i].download_info.path = <<"org", "/", "ruled", ".jar">>

\* C13: for a rule list without feature constraints, check_allowed gives true
\* for the empty list and otherwise the action of the last rule that matches
\* (false when none matches), a rule matching iff it has no os constraint or
\* its os name is the platform's and its version pattern, if any, matches
\* somewhere in the platform's version.
C13_LastMatchWins ==
    pc = "Ok" =>
        \A rules \in RulesInPlay :
            (NoFeatureConstraints(rules) /\ WellFormedRules(rules))
                => check_allowed(rules, platform).allow = LastMatchWins(rules, platform)

\* C14: a rule list that is a single allow rule with a features constraint and
\* no os constraint is denied when the feature is not supplied.
C14_FeatureRuleDenied ==
    pc = "Ok" =>
        \A rules \in RulesInPlay :
            (/\ Len(rules) = 1
             /\ Get(rules[1], "features").t = "object"
             /\ Get(rules[1], "os").t = "null"
             /\ Get(rules[1], "action") = JStr("allow"))
                => /\ ~check_allowed(rules, platform).allow
                   /\ ~RuledLibraryResolved

\* A rule whose os clause carries a name and a features map.
NamesAndFeatures(rule) ==
    /\ Get(Get(rule, "os"), "name").t = "string"
    /\ Get(Get(rule, "os"), "features").t = "object"

\* C15, as stated: a rule list that contains a rule whose os clause carries a
\* name and a features map is denied, whether or not the name is the
\* platform's and whatever the other rules are.
C15_NameAndFeaturesDenies ==
    pc = "Ok" =>
        \A rules \in RulesInPlay :
            (\E i \in 1..Len(rules) : NamesAndFeatures(rules[i]))
                => /\ ~check_allowed(rules, platform).allow
                   /\ ~RuledLibraryResolved

\* C15, amended: a rule list that contains a rule whose os clause carries
\* the platform's name and a features map is denied whatever the rules
\* after it are, unless a rule before it makes the evaluation panic; a
\* rule of that kind with another os name is skipped as not matching: the
\* other rules decide, and a list with no other rule is denied.
C15_MatchingNameAndFeaturesDenies ==
    \A rules \in RulesInPlay :
        LET hits == {i \in 1..Len(rules) :
                        /\ NamesAndFeatures(rules[i])
                        /\ Get(Get(rules[i], "os"), "name").v = platform.name}
            firstHit == CHOOSE i \in hits : \A j \in hits : i <= j
            others == SelectSeq(rules, LAMBDA r : ~NamesAndFeatures(r))
        IN  /\ hits # {} =>
                 /\ ~check_allowed(rules, platform).allow
                 /\ check_allowed(rules, platform).panic =
                        (firstHit > 1 /\ check_allowed(SubSeq(rules, 1, firstHit - 1), platform).panic)
                 /\ pc = "Ok" => ~RuledLibraryResolved
            /\ ((\E i \in 1..Len(rules) : NamesAndFeatures(rules[i])) /\ hits = {})
                   => check_allowed(rules, platform) =
                          IF others = <<>> THEN [panic |-> FALSE, allow |-> FALSE]
                          ELSE check_allowed(others, platform)

C15_Witness ==
    /\ pc = "Ok"
    /\ platform = Linux
    /\ RulesInPlay = {<<NameAndFeaturesRule, AllowRule>>}
    /\ result[1].libraries = <<>>
\* resolve_libraries has run: it returned or it panicked.
LibrariesResolved == pc = "Ok" \/ (pc = "panic" /\ error = "unwrap")

\* An entry with a classifiers map and a native-key map.
IsClassified(e) ==
    /\ Get(Get(e, "downloads"), "classifiers").t = "object"
    /\ Get(e, "natives").t = "object"

\* The rules of the entry, if any, allow it on the platform.
RulesAllow(e, pf) ==
    Get(e, "rules").t = "array" =>
        (~check_allowed(Get(e, "rules").v, pf).panic /\ check_allowed(Get(e, "rules").v, pf).allow)

\* The classifier the native-key map selects for the platform: none when
\* either lookup misses.
SelectedClassifier(e, pf) ==
    LET key == Get(Get(e, "natives"), pf.name)
        classifiers == Get(Get(e, "downloads"), "classifiers")
    IN  IF key.t # "string" THEN None
        ELSE IF Get(classifiers, key.v).t # "object" THEN None
        ELSE Some(Get(classifiers, key.v))

\* C16: an entry with a classifiers map and a native-key map whose rules
\* allow yields no record when the native-key map has no entry for the
\* platform or the classifiers map has none for the key, and otherwise
\* exactly one record, native, with the sha1, size, url and path of the
\* selected classifier.
C16_NativeClassifier ==
    LibrariesResolved =>
        \A p \in 1..Len(libraries_raw) :
            LET e == libraries_raw[p]
                c == SelectedClassifier(e, platform)
            IN  (IsClassified(e) /\ RulesAllow(e, platform)) =>
                    ResolveLibrary(e, platform) =
                        [panic |-> FALSE,
                         recs |-> IF c = None THEN <<>>
                                  ELSE <<ResolvedLibrary(Get(c[1], "sha1").v, Get(c[1], "size").v,
                                                         Get(c[1], "url").v, Get(c[1], "path").v,
                                                         TRUE)>>]

\* C17: every raw entry contributes zero or one record: the returned list is
\* no longer than the raw list.
C17_AtMostOnePerEntry ==
    pc = "Ok" => Len(result[1].libraries) <= Len(libraries_raw)
\* A legacy entry: no artifact download, no classifiers with natives, a name.
IsLegacyEntry(e) ==
    /\ Get(Get(e, "downloads"), "artifact").t # "object"
    /\ ~IsClassified(e)
    /\ Get(e, "name").t = "string"

\* The positions of the ':' in a name.
Colons(name) == {i \in 1..Len(name) : name[i] = ":"}

\* group:artifact:version
IsCoordinate(name) == Cardinality(Colons(name)) = 2

\* <group with '.' as '/'>/<artifact>/<version>/<artifact>-<version>.jar
MavenPath(name) ==
    LET c1 == CHOOSE i \in Colons(name) : \A j \in Colons(name) : i <= j
        c2 == CHOOSE i \in Colons(name) : \A j \in Colons(name) : j <= i
        group == SubSeq(name, 1, c1 - 1)
        artifact == SubSeq(name, c1 + 1, c2 - 1)
        version == SubSeq(name, c2 + 1, Len(name))
    IN  [i \in 1..Len(group) |-> IF group[i] = "." THEN "/" ELSE group[i]]
            \o <<"/">> \o artifact \o <<"/">> \o version \o <<"/">>
            \o artifact \o <<"-">> \o version \o <<".jar">>

\* The record of a legacy entry with a three-segment name.
LegacyRecord(e) ==
    [download_info |->
         [sha1 |-> "", size |-> 0,
          url |-> (IF Get(e, "url").t = "string" THEN Get(e, "url").v
                   ELSE <<"http://files.minecraftforge.net/maven/">>)
                      \o MavenPath(Get(e, "name").v),
          path |-> MavenPath(Get(e, "name").v)],
     is_native_library |-> FALSE]

\* C18: a legacy entry whose name has exactly three ':'-separated segments
\* group:artifact:version yields the record with relative path
\* <group, dots as slashes>/<artifact>/<version>/<artifact>-<version>.jar, url
\* the entry's url (the default maven base url when it has none) followed by
\* that path, empty sha1, size 0, not native.
C18_LegacyMavenPath ==
    \A p \in 1..Len(libraries_raw) :
        LET e == libraries_raw[p] IN
        (IsLegacyEntry(e) /\ IsCoordinate(Get(e, "name").v) /\ RulesAllow(e, platform)) =>
            /\ ResolveLibrary(e, platform) = [panic |-> FALSE, recs |-> <<LegacyRecord(e)>>]
            /\ pc = "Ok" => \E i \in 1..Len(result[1].libraries) :
                                result[1].libraries[i] = LegacyRecord(e)

C18_Witness ==
    /\ pc = "Ok"
    /\ libraries_raw = <<LegacyUrlLibrary, LegacyLibrary("a")>>
    /\ result[1].libraries[1].download_info.path =
           <<"net", "/", "example", "/", "lib", "/", "1", ".", "0", "/",
             "lib", "-", "1", ".", "0", ".jar">>
    /\ result[1].libraries[1].download_info.url =
           <<"https://maven.example/", "net", "/", "example", "/", "lib", "/",
             "1", ".", "0", "/", "lib", "-", "1", ".", "0", ".jar">>
    /\ result[1].libraries[2].download_info.url[1] = "http://files.minecraftforge.net/maven/"
    /\ result[1].libraries[2].download_info.sha1 = ""
    /\ result[1].libraries[2].download_info.size = 0
    /\ ~result[1].libraries[2].is_native_library

\* A legacy entry whose name has fewer or more than three segments.
IsMalformedCoordinate(e) ==
    IsLegacyEntry(e) /\ ~IsCoordinate(Get(e, "name").v)

\* C19: a legacy entry whose name has fewer or more than three segments yields
\* no record, the entries after it are still processed and the resolution
\* succeeds: the outcome is the one of the list without these entries.
C19_MalformedCoordinateSkipped ==
    LET kept == SelectSeq(libraries_raw, LAMBDA e : ~IsMalformedCoordinate(e)) IN
    /\ \A p \in 1..Len(libraries_raw) :
           (IsMalformedCoordinate(libraries_raw[p]) /\ RulesAllow(libraries_raw[p], platform))
               => ResolveLibrary(libraries_raw[p], platform) = [panic |-> FALSE, recs |-> <<>>]
    /\ resolve_libraries(libraries_raw, platform) = resolve_libraries(kept, platform)
    /\ pc = "Ok" => result[1].libraries = resolve_libraries(kept, platform).libs
    /\ LibrariesResolved => (pc = "panic" <=> resolve_libraries(kept, platform).panic)

C19_Witness ==
    /\ pc = "Ok"
    /\ libraries_raw = <<LegacyTwoSegments, CommonLibrary>>
    /\ Len(result[1].libraries) = 1
    /\ result[1].libraries[1].download_info.path = <<"com", "/", "common", ".jar">>

\* C20: resolve_libraries never fails hard: whatever the entries (an artifact
\* download without sha1/size/url/path, a rule without an action or with an
\* invalid version pattern), it returns a list and does not panic.
C20_NeverPanics ==
    ~(pc = "panic" /\ error = "unwrap")
\* C21: every record of the returned list has a non-empty url and a non-empty
\* relative path, whatever the input list.
C21_UrlAndPathNonEmpty ==
    pc = "Ok" =>
        \A i \in 1..Len(result[1].libraries) :
            /\ result[1].libraries[i].download_info.url # <<>>
            /\ result[1].libraries[i].download_info.path # <<>>

\* C22: the returned inheritances and path_chain have one entry per descriptor
\* of the chain, leaf first: the first is the id (the json path) of the
\* requested version, the last the root's.
C22_LeafToRootLists ==
    pc = "Ok" =>
        /\ Len(result[1].inheritances) = Len(Chain)
        /\ result[1].inheritances = [i \in 1..Len(Chain) |-> Chain[i].id]
        /\ result[1].path_chain = [i \in 1..Len(Chain) |-> VersionJsonPath(Chain[i].id)]

\* The value of an optional field of the leaf, the given default when absent.
OwnValue(field, default) ==
    IF self[field] = None THEN default ELSE self[field][1]

\* C23, as stated: resolving a descriptor without a parent id loads no
\* ancestor and returns the descriptor's own main_class, assets, asset_index,
\* version_type, timestamps, java_version and minimum_launcher_version.
C23_NoInheritanceIdentity ==
    (pc = "Ok" /\ self.inherits_from = None) =>
        /\ inheritances = <<>>
        /\ result[1].main_class = OwnValue("main_class", "")
        /\ result[1].assets = OwnValue("assets", "")
        /\ result[1].asset_index = self.asset_index
        /\ result[1].version_type = OwnValue("type", "")
        /\ result[1].release_time = OwnValue("release_time", "")
        /\ result[1].time = OwnValue("time", "")
        /\ result[1].java_version = OwnValue("java_version", DefaultJavaVersion)
        /\ self.minimum_launcher_version # None =>
               result[1].minimum_launcher_version = self.minimum_launcher_version[1]

\* C23, amended: resolving a descriptor without a parent id loads no ancestor;
\* the merged and the returned scalar fields are the descriptor's own values,
\* the built-in default for a field it omits, and minimum_launcher_version is
\* its own value when that is at least 0 and 0 otherwise.
C23_NoInheritanceIdentityFromZero ==
    self.inherits_from = None =>
        /\ inheritances = <<>> /\ path_chain = <<>>
        /\ MergeFinished =>
               /\ main_class = OwnValue("main_class", "")
               /\ assets = OwnValue("assets", "")
               /\ assets_index = OwnValue("asset_index", EmptyAssetIndex)
               /\ version_type = OwnValue("type", "")
               /\ release_time = OwnValue("release_time", "")
               /\ time = OwnValue("time", "")
               /\ java_version = OwnValue("java_version", DefaultJavaVersion)
               /\ minimum_launcher_version =
                      (IF OwnValue("minimum_launcher_version", 0) >= 0
                       THEN OwnValue("minimum_launcher_version", 0) ELSE 0)
        /\ pc = "Ok" =>
               /\ result[1].main_class = OwnValue("main_class", "")
               /\ result[1].assets = OwnValue("assets", "")
               /\ result[1].asset_index = self.asset_index
               /\ result[1].version_type = OwnValue("type", "")
               /\ result[1].release_time = OwnValue("release_time", "")
               /\ result[1].time = OwnValue("time", "")
               /\ result[1].java_version = OwnValue("java_version", DefaultJavaVersion)
               /\ result[1].minimum_launcher_version =
                      (IF OwnValue("minimum_launcher_version", 0) >= 0
                       THEN OwnValue("minimum_launcher_version", 0) ELSE 0)
               /\ result[1].inheritances = <<>>

C23_Witness ==
    /\ pc = "Ok"
    /\ self.inherits_from = None
    /\ self.minimum_launcher_version = Some(5)
    /\ self.java_version = Some(JavaVersionOf(LeafId))
    /\ self.assets = None
    /\ result[1].minimum_launcher_version = 5
    /\ result[1].java_version.major_version = 21
    /\ result[1].main_class = "MainA"
    /\ result[1].assets = ""

\* An entry with an artifact download that has its four fields and without
\* classifiers and natives maps.
IsArtifactEntry(e) ==
    /\ Get(Get(e, "downloads"), "artifact").t = "object"
    /\ IsLibraryDownload(Get(Get(e, "downloads"), "artifact"))
    /\ ~IsClassified(e)

\* C24: an entry with an artifact download and no classifiers and natives maps
\* yields no record when its rules are present and deny, and otherwise exactly
\* one record, not native, with the sha1, size, url and path of the artifact
\* download.
C24_ArtifactEntry ==
    \A p \in 1..Len(libraries_raw) :
        LET e == libraries_raw[p]
            artifact == Get(Get(e, "downloads"), "artifact")
            rules == Get(e, "rules")
            record == [download_info |->
                           [sha1 |-> Get(artifact, "sha1").v, size |-> Get(artifact, "size").v,
                            url |-> Get(artifact, "url").v, path |-> Get(artifact, "path").v],
                       is_native_library |-> FALSE]
        IN  (IsArtifactEntry(e)
               /\ (rules.t = "array" => ~check_allowed(rules.v, platform).panic)) =>
                IF rules.t = "array" /\ ~check_allowed(rules.v, platform).allow
                THEN ResolveLibrary(e, platform) = [panic |-> FALSE, recs |-> <<>>]
                ELSE /\ ResolveLibrary(e, platform) = [panic |-> FALSE, recs |-> <<record>>]
                     /\ pc = "Ok" =>
                            Cardinality({i \in 1..Len(result[1].libraries) :
                                             result[1].libraries[i] = record})
                                >= Cardinality({q \in 1..Len(libraries_raw) :
                                                    libraries_raw[q] = e})

C24_Witness ==
    /\ pc = "Ok"
    /\ platform = Windows
    /\ libraries_raw = <<GatedLibrary("a"), CommonLibrary>>
    /\ Len(result[1].libraries) = 1
    /\ result[1].libraries[1].download_info.path = <<"com", "/", "common", ".jar">>
    /\ result[1].libraries[1].download_info.url = <<"https://libraries/", "com", "/", "common", ".jar">>
    /\ ~result[1].libraries[1].is_native_library
\* C25: a resolution writes no shared state: no step of parse changes the
\* leaf, the versions folder or the platform, and a second call on the same
\* leaf, folder and platform returns what the first call returned.
C25_NoSharedWrites ==
    [][/\ files' = files
       /\ self' = self
       /\ platform' = platform
       /\ (first' # None /\ pc' \in {"Ok", "Err", "panic"})
              => first'[1] = [pc |-> pc', error |-> error', result |-> result']]_vars

C25_Witness ==
    /\ first # None
    /\ pc = "Ok"
    /\ inheritances = <<"b", "c">>
    /\ result # None
    /\ first[1].result = result

RECURSIVE Ancestors(_, _)
\* The ids the parent pointers lead to from a parent id, followed for at most
\* fuel files and up to the first file that cannot be read.
Ancestors(parent, fuel) ==
    IF parent = None \/ fuel = 0 THEN <<>>
    ELSE IF Unreadable(parent[1]) THEN <<parent[1]>>
    ELSE <<parent[1]>> \o Ancestors(files[parent[1]].version.inherits_from, fuel - 1)

\* The chain of the leaf is finite, repeats no id and every ancestor loads.
AcyclicLoadable ==
    LET ancestors == Ancestors(self.inherits_from, Cardinality(Ids) + 1) IN
    /\ ~HasRepeat(<<self.id>> \o ancestors)
    /\ \A i \in 1..Len(ancestors) : ~Unreadable(ancestors[i])

\* C26: on a finite acyclic chain whose ancestors all load, every step of the
\* walk loads at most one descriptor, the one the parent id of the descriptor
\* loaded last names; the descriptors loaded are the ancestors in leaf-to-root
\* order, each once; the walk ends, without a load, exactly at the descriptor
\* without a parent id.
C26_SequentialWalk ==
    [][(pc = "walk" /\ AcyclicLoadable) =>
          LET expected == Ancestors(self.inherits_from, Cardinality(Ids) + 1) IN
          /\ Len(inheritances') <= Len(inheritances) + 1
          /\ Len(inheritances') <= Len(expected)
          /\ inheritances' = SubSeq(expected, 1, Len(inheritances'))
          /\ ~HasRepeat(<<self.id>> \o inheritances')
          /\ versions' = <<self>> \o [i \in 1..Len(inheritances') |->
                                          files[inheritances'[i]].version]
          /\ inherits_from' = versions'[Len(versions')].inherits_from
          /\ versions[Len(versions)].inherits_from = None
                 <=> (pc' = "merge" /\ inheritances' = inheritances)
          /\ pc' # "walk" => (pc' = "merge" /\ inheritances' = expected)]_vars

C26_Witness ==
    /\ pc = "merge"
    /\ AcyclicLoadable
    /\ inheritances = <<"b", "c">>
    /\ Len(versions) = 3
    /\ versions[3].id = "c"
    /\ versions[3].inherits_from = None

\* The values a conditional template carries: its single value, or the
\* members of its list in order.
TemplateValues(template) ==
    LET value == Get(template, "value") IN
    IF value.t = "string" THEN <<value.v>>
    ELSE IF value.t = "array" THEN [k \in 1..Len(value.v) |-> value.v[k].v]
    ELSE <<>>

\* The template has no rules, or the rule evaluator of the expander allows them.
TemplateAllowed(template, pf, by) ==
    LET rules == Get(template, "rules") IN
    \/ rules.t # "array"
    \/ IF by = "core" THEN check_allowed(rules.v, pf).allow
       ELSE utils_check_allowed(rules.v, pf).allow

RECURSIVE ExpectedTokens(_, _, _)
\* The reference: the contribution of the first template followed by the
\* contributions of the others.
ExpectedTokens(templates, pf, by) ==
    IF templates = <<>> THEN <<>>
    ELSE LET template == Head(templates)
             contribution ==
                 IF template.t = "string" THEN <<template.v>>
                 ELSE IF template.t = "object" /\ TemplateAllowed(template, pf, by)
                      THEN TemplateValues(template)
                 ELSE <<>>
         IN  contribution \o ExpectedTokens(Tail(templates), pf, by)

\* every token followed by a space
Spaced(tokens) ==
    [k \in 1..(2 * Len(tokens)) |-> IF k % 2 = 1 THEN tokens[(k + 1) \div 2] ELSE " "]

\* the rules of every template are well formed and every value is a string
WellFormedTemplates(templates) ==
    \A i \in 1..Len(templates) :
        /\ Get(templates[i], "rules").t = "array"
               => WellFormedRules(Get(templates[i], "rules").v)
        /\ Get(templates[i], "value").t = "array"
               => \A k \in 1..Len(Get(templates[i], "value").v) :
                      Get(templates[i], "value").v[k].t = "string"

\* C27: an argument expander returns the tokens of its templates in input
\* order, nothing reordered and nothing dropped as a duplicate: a literal
\* contributes itself, a conditional template all its values in order if it
\* has no rules or the rules are allowed, and nothing otherwise.  The core
\* expander returns the token list, the utils expander the text in which every
\* token is followed by a space.
C27_InputOrderTokens ==
    (expanded # None /\ HasTemplates
         /\ WellFormedTemplates(self.arguments[1].game[1])
         /\ WellFormedTemplates(self.arguments[1].jvm[1])) =>
        LET game == ExpectedTokens(self.arguments[1].game[1], platform, expanded[1].by)
            jvm == ExpectedTokens(self.arguments[1].jvm[1], platform, expanded[1].by)
        IN  /\ ~expanded[1].panic
            /\ expanded[1].by = "core" =>
                   expanded[1].game = game /\ expanded[1].jvm = jvm
            /\ expanded[1].by = "utils" =>
                   expanded[1].game = Spaced(game) /\ expanded[1].jvm = Spaced(jvm)

C27_Witness ==
    /\ expanded # None
    /\ expanded[1].by = "core"
    /\ platform = Linux
    /\ Len(self.arguments[1].game[1]) = 3
    /\ self.arguments[1].game[1][1].t = "string"
    /\ self.arguments[1].game[1][1].v = "--demo"
    /\ self.arguments[1].game[1][2].t = "object"
    /\ self.arguments[1].game[1][3].t = "string"
    /\ self.arguments[1].game[1][3].v = "--demo"
    /\ expanded[1].game = <<"--demo", "--width", "854", "--demo">>
    /\ expanded[1].jvm = <<"-Xmx2G">>

\* The rules arrays of the game templates of the leaf.
TemplateRulesInPlay ==
    LET game == IF HasTemplates THEN self.arguments[1].game[1] ELSE <<>> IN
    {Get(game[i], "rules").v : i \in {j \in 1..Len(game) : Get(game[j], "rules").t = "array"}}

\* C28: the rule evaluator of core and the rule evaluator of utils decide
\* alike on every well-formed rule list and platform, also on a rule whose os
\* clause has no name and on a rule whose os clause has a version pattern.
C28_EvaluatorsAgree ==
    (expanded # None \/ pc = "Ok") =>
        \A rules \in RulesInPlay \cup TemplateRulesInPlay :
            WellFormedRules(rules) =>
                check_allowed(rules, platform).allow
                    = utils_check_allowed(rules, platform).allow

\* C29: the file install_fabric wrote loads as a Version: reading it by the
\* returned id succeeds, its libraries are an array that starts with the
\* loader and the intermediary artifacts, and its id is the returned id.
C29_InstalledIsLoadable ==
    loaded # None =>
        /\ loaded[1].ok
        /\ loaded[1].version[1].id = installed[1].id
        /\ loaded[1].version[1].libraries # None
        /\ Len(loaded[1].version[1].libraries[1]) >= 2
        /\ Get(loaded[1].version[1].libraries[1][1], "name") = JStr(loader.loader.maven)
        /\ Get(loaded[1].version[1].libraries[1][2], "name") = JStr(loader.intermediary.maven)

\* C30: the document install_fabric wrote names a parent: inheritsFrom is
\* the inherits_from of the options when given and else the version of the
\* loader's intermediary artifact, with and without a yarn version in the
\* options, and it is not empty.
C30_ParentIdPresent ==
    installed # None =>
        LET o == IF options = None THEN DefaultFabricInstallOptions ELSE options[1]
            parent == Get(installed[1].document, "inheritsFrom")
        IN  /\ parent.t = "string"
            /\ parent.v # <<>>
            /\ parent.v = IF o.inherits_from # None THEN o.inherits_from[1]
                          ELSE loader.intermediary.version
====
